---- MODULE Spec2Model ----
(***************************************************************************)
(* Fragment pipeline of the news extractor.                                *)
(*                                                                         *)
(*   SpecSplit  split_text_into_chunks (chunked_news_extraction.py), one   *)
(*              step per iteration of its while loop                       *)
(*   SpecMerge  merge_news_results (chunked_news_extraction.py)            *)
(*   SpecSeq    run_news_extraction, the sequential pipeline               *)
(*              (chunked_news_extraction.py)                               *)
(*   Spec       NewsExtractor.run, the asyncio pipeline with its semaphore *)
(*              gated pool (test/news_extraction_playwright_test.py)       *)
(*                                                                         *)
(* A string is a sequence of one-character strings.                        *)
(***************************************************************************)
EXTENDS Integers, Sequences, FiniteSets, TLC

VARIABLES
    \* split_text_into_chunks
    text, chunk_size, overlap, start, chunks, offsets, split_pc,
    \* merge_news_results
    results, merged, remerged, merge_pc,
    \* run_news_extraction (sequential pipeline)
    seq_pc, seq_content, seq_chunks, seq_i, seq_results, seq_calls, seq_final,
    seq_saved,
    \* NewsExtractor.run (asyncio pipeline)
    pc, content, nchunks, concurrency, semaphore, task, call, ret, finished, progress,
    raw_results, consolidation, final_news, saved, attempts, consolidate_calls,
    context_data,
    \* parse_news_response
    response, parsed, parse_pc,
    \* run_news_extraction (tool loop of news_extraction_playwright.py)
    tool_pc, iteration, model_calls, message, tool_messages, tool_cause, tool_news

splitVars == <<text, chunk_size, overlap, start, chunks, offsets, split_pc>>
mergeVars == <<results, merged, remerged, merge_pc>>
seqVars == <<seq_pc, seq_content, seq_chunks, seq_i, seq_results, seq_calls, seq_final,
             seq_saved>>
poolVars == <<pc, content, nchunks, concurrency, semaphore, task, call, ret, finished,
              progress, raw_results, consolidation, final_news, saved, attempts,
              consolidate_calls, context_data>>
parseVars == <<response, parsed, parse_pc>>
toolVars == <<tool_pc, iteration, model_calls, message, tool_messages, tool_cause,
              tool_news>>
vars == <<splitVars, mergeVars, seqVars, poolVars, parseVars, toolVars>>

\* what a step of one program leaves alone: the state of the other programs
notSplitVars == <<mergeVars, seqVars, poolVars, parseVars, toolVars>>
notMergeVars == <<splitVars, seqVars, poolVars, parseVars, toolVars>>
notSeqVars == <<splitVars, mergeVars, poolVars, parseVars, toolVars>>
notPoolVars == <<splitVars, mergeVars, seqVars, parseVars, toolVars>>
notParseVars == <<splitVars, mergeVars, seqVars, poolVars, toolVars>>
notToolVars == <<splitVars, mergeVars, seqVars, poolVars, parseVars>>

(***************************************************************************)
(* Bounds of the model.                                                    *)
(***************************************************************************)
\* longest text handed to the chunker
MaxLen == 4
\* largest chunk_size and overlap tried by the chunker
MaxChunkSize == 4
MaxOverlap == 4
\* merge_news_results: results per call, strings per call (all categories)
MaxResults == 2
MaxItems == 3
\* asyncio pipeline: chunks per run, largest concurrency limit
MaxChunks == 3
MaxConcurrency == 2
\* parse_news_response: keys per payload
MaxKeys == 3
\* tool loop: tool calls per answer of the model
MaxToolCalls == 2

\* program constants
CHUNK_SIZE == 2000
CHUNK_OVERLAP == 100
max_iterations == 5

Min(a, b) == IF a <= b THEN a ELSE b
Max(a, b) == IF a >= b THEN a ELSE b

\* the k-th smallest member of a set of numbers
Nth(S, k) == CHOOSE j \in S : Cardinality({x \in S : x <= j}) = k

\* all sequences over S of length exactly n, of length at most n
SeqsOfLen(S, n) == [1..n -> S]
SeqsUpTo(S, n) == UNION {SeqsOfLen(S, k) : k \in 0..n}

(***************************************************************************)
(* Python slicing text[a:b] with integer bounds: a negative bound counts   *)
(* from the end, and both are clipped to 0..len(text).                     *)
(***************************************************************************)
SliceBound(n, a) == IF a < 0 THEN Max(a + n, 0) ELSE Min(a, n)

\* text[a:b + 1]: one character more at the end
PySliceInclusive(s, a, b) ==
    LET lo == SliceBound(Len(s), a)
        hi == SliceBound(Len(s), b + 1)
    IN  IF hi <= lo THEN <<>> ELSE SubSeq(s, lo + 1, hi)

PySlice(s, a, b) ==
    LET lo == SliceBound(Len(s), a)
        hi == SliceBound(Len(s), b)
    IN  IF hi <= lo THEN <<>> ELSE SubSeq(s, lo + 1, hi)

(***************************************************************************)
(* split_text_into_chunks(text, chunk_size, overlap)                       *)
(***************************************************************************)
TextChars == {"a", "b"}

\* start = end - overlap, skipping ahead instead of stepping back
NextStartSkipsAhead(end, ov) == end + ov

\* start = end, the overlap forgotten
NextStartNoOverlap(end, ov) == end

\* start = end - overlap
NextStart(end, ov) == end - ov

\* while start <= len(text): one iteration too many at the end of the text
ContinuesAtEnd(st, n) == st <= n

\* while start < len(text)
Continues(st, n) == st < n

\* the while loop never ends for overlap >= chunk_size: the model stops it
\* after more iterations than any text of the model needs with a valid
\* configuration
LoopCap == MaxLen + 2

\* a page of 4300 characters, to be split with the defaults of the program
LongText == [i \in 1..4300 |-> "a"]

\* every text up to MaxLen, the longest first, with every positive chunk_size
\* and every overlap of the bounds, valid (overlap < chunk_size) or not; and
\* the long page with the default chunk_size and overlap
SplitInit ==
    /\ \/ /\ \E k \in 0..MaxLen : text \in SeqsOfLen(TextChars, MaxLen - k)
          /\ chunk_size \in 1..MaxChunkSize
          /\ overlap \in 0..MaxOverlap
       \/ /\ text = LongText
          /\ chunk_size = CHUNK_SIZE
          /\ overlap = CHUNK_OVERLAP
    /\ start = 0
    /\ chunks = <<>>
    /\ offsets = <<>>
    /\ split_pc = "loop"

SplitIdle ==
    /\ text = <<>>
    /\ chunk_size = CHUNK_SIZE
    /\ overlap = CHUNK_OVERLAP
    /\ start = 0
    /\ chunks = <<>>
    /\ offsets = <<>>
    /\ split_pc = "idle"

\* one iteration of the while loop
SplitStep ==
    /\ split_pc = "loop"
    /\ Continues(start, Len(text))
    /\ Len(chunks) < LoopCap
    /\ LET end == start + chunk_size
       IN  /\ chunks' = Append(chunks, PySlice(text, start, end))
           /\ offsets' = Append(offsets,
                                [start_offset |-> SliceBound(Len(text), start),
                                 end_offset |-> Max(SliceBound(Len(text), start),
                                                    SliceBound(Len(text), end))])
           /\ start' = NextStart(end, overlap)
    /\ UNCHANGED <<notSplitVars, text, chunk_size, overlap, split_pc>>

\* the loop condition fails: return chunks
SplitReturn ==
    /\ split_pc = "loop"
    /\ ~Continues(start, Len(text))
    /\ split_pc' = "returned"
    /\ UNCHANGED <<notSplitVars, text, chunk_size, overlap, start, chunks, offsets>>

SplitNext == SplitStep \/ SplitReturn

\* the whole call, for the callers of the chunker
RECURSIVE SplitLoop(_, _, _, _, _)
SplitLoop(t, cs, ov, st, acc) ==
    IF Continues(st, Len(t)) /\ Len(acc) < Len(t) + 2
    THEN SplitLoop(t, cs, ov, NextStart(st + cs, ov), Append(acc, PySlice(t, st, st + cs)))
    ELSE acc

split_text_into_chunks(t, cs, ov) == SplitLoop(t, cs, ov, 0, <<>>)

(***************************************************************************)
(* merge_news_results(results)                                             *)
(***************************************************************************)
Whitespace == {" "}

\* str.lower(), one character at a time
UpperCase == <<"A", "B", "C", "D", "E", "F", "G", "H", "I", "J", "K", "L", "M",
              "N", "O", "P", "Q", "R", "S", "T", "U", "V", "W", "X", "Y", "Z">>
LowerCase == <<"a", "b", "c", "d", "e", "f", "g", "h", "i", "j", "k", "l", "m",
              "n", "o", "p", "q", "r", "s", "t", "u", "v", "w", "x", "y", "z">>

LowerOf == [c \in {UpperCase[i] : i \in DOMAIN UpperCase} |->
               LowerCase[CHOOSE i \in DOMAIN UpperCase : UpperCase[i] = c]]

LowerChar(c) == IF c \in DOMAIN LowerOf THEN LowerOf[c] ELSE c

Lower(s) == [i \in 1..Len(s) |-> LowerChar(s[i])]

\* str.strip(): drop the leading and the trailing whitespace
RECURSIVE LStrip(_)
LStrip(s) == IF s # <<>> /\ Head(s) \in Whitespace THEN LStrip(Tail(s)) ELSE s

RECURSIVE RStrip(_)
RStrip(s) ==
    IF s # <<>> /\ s[Len(s)] \in Whitespace THEN RStrip(SubSeq(s, 1, Len(s) - 1)) ELSE s

Strip(s) == RStrip(LStrip(s))

\* the strings an extraction may return
EntityStrings == {<<>>, <<" ">>, <<"a">>, <<" ", "A", " ">>, <<"b">>}

Categories == {"companies", "persons", "events"}

News(c, p, e) == [companies |-> c, persons |-> p, events |-> e]

\* News(companies=[], persons=[], events=[])
EmptyNews == News(<<>>, <<>>, <<>>)

\* no News object yet
NoNews == [none |-> TRUE]

\* every list of every result extended into the list of the category
RECURSIVE FlattenAnyCategory(_, _)
FlattenAnyCategory(rs, cat) ==
    IF rs = <<>> THEN <<>>
    ELSE Head(rs).companies \o Head(rs).persons \o Head(rs).events
             \o FlattenAnyCategory(Tail(rs), cat)

\* all_<category>.extend(result.<category>) for result in results
RECURSIVE Flatten(_, _)
Flatten(rs, cat) == IF rs = <<>> THEN <<>> ELSE Head(rs)[cat] \o Flatten(Tail(rs), cat)

\* unique.append(item_normalized): the lower-cased key instead of the item
KeptFormLowered(item) == Lower(Strip(item))

\* unique.append(item.strip())
KeptForm(item) == Strip(item)

\* for item in items: ... with its seen set and unique list
RECURSIVE DedupLoop(_, _, _)
DedupLoop(items, seen, unique) ==
    IF items = <<>> THEN unique
    ELSE LET item == Head(items)
             item_normalized == Lower(Strip(item))
         IN  IF item_normalized # <<>> /\ item_normalized \notin seen
             THEN DedupLoop(Tail(items), seen \cup {item_normalized},
                            Append(unique, KeptForm(item)))
             ELSE DedupLoop(Tail(items), seen, unique)

deduplicate(items) == DedupLoop(items, {}, <<>>)

\* the unique companies returned as persons and the unique persons as companies
MergeCategoriesSwapped(rs) ==
    News(deduplicate(Flatten(rs, "persons")),
         deduplicate(Flatten(rs, "companies")),
         deduplicate(Flatten(rs, "events")))

merge_news_results(rs) ==
    News(deduplicate(Flatten(rs, "companies")),
         deduplicate(Flatten(rs, "persons")),
         deduplicate(Flatten(rs, "events")))

\* the strings of items that slot q holds, slot[k] being the slot of items[k]
ItemsAt(slot, items, q) ==
    LET at == {k \in DOMAIN slot : slot[k] = q}
    IN  [j \in 1..Cardinality(at) |-> items[Nth(at, j)]]

\* r News objects out of a list of strings dealt over their 3 * r category
\* lists, slot by slot
Deal(r, slot, items) ==
    [i \in 1..r |-> News(ItemsAt(slot, items, 3 * i - 2),
                         ItemsAt(slot, items, 3 * i - 1),
                         ItemsAt(slot, items, 3 * i))]

\* every list of at most MaxResults News objects that hold at most MaxItems
\* strings together
MergeInit ==
    /\ \E r \in 0..MaxResults : \E n \in 0..MaxItems :
           \E slot \in {f \in [1..n -> 1..(3 * r)] :
                           \A k \in 1..(n - 1) : f[k] <= f[k + 1]} :
               \E items \in [1..n -> EntityStrings] :
                   results = Deal(r, slot, items)
    /\ merged = NoNews
    /\ remerged = NoNews
    /\ merge_pc = "call"

MergeIdle ==
    /\ results = <<>>
    /\ merged = NoNews
    /\ remerged = NoNews
    /\ merge_pc = "idle"

MergeCall ==
    /\ merge_pc = "call"
    /\ merged' = merge_news_results(results)
    /\ merge_pc' = "returned"
    /\ UNCHANGED <<notMergeVars, results, remerged>>

\* merge_news_results([merged]): the merge of its own result
MergeAgain ==
    /\ merge_pc = "returned"
    /\ remerged' = merge_news_results(<<merged>>)
    /\ merge_pc' = "remerged"
    /\ UNCHANGED <<notMergeVars, results, merged>>

MergeNext == MergeCall \/ MergeAgain

(***************************************************************************)
(* What the language model may answer.                                     *)
(***************************************************************************)
\* the News objects a successful extraction call may return
ExtractOutputs ==
    {EmptyNews,
     News(<< <<"a">> >>, <<>>, <<>>),
     News(<< <<" ", "A", " ">> >>, << <<"b">> >>, << <<"a">> >>)}

\* the ways an extraction call fails: the call raises, or its answer does not parse
FailureKinds == {"raised", "malformed"}

(***************************************************************************)
(* run_news_extraction(url), the sequential pipeline                       *)
(***************************************************************************)
\* page lengths the loader may return: the shortest pages of no chunk, one
\* chunk, two chunks and three chunks
ContentLengths ==
    {0, 1, CHUNK_SIZE - CHUNK_OVERLAP + 1, 2 * (CHUNK_SIZE - CHUNK_OVERLAP) + 1}

SeqInit ==
    /\ seq_pc = "load"
    /\ seq_content = <<>>
    /\ seq_chunks = <<>>
    /\ seq_i = 1
    /\ seq_results = <<>>
    /\ seq_calls = <<>>
    /\ seq_final = NoNews
    /\ seq_saved = 0

SeqIdle ==
    /\ seq_pc = "idle"
    /\ seq_content = <<>>
    /\ seq_chunks = <<>>
    /\ seq_i = 1
    /\ seq_results = <<>>
    /\ seq_calls = <<>>
    /\ seq_final = NoNews
    /\ seq_saved = 0

\* docs = loader.load(); content = docs[0].page_content if docs else ""
SeqLoad(n) ==
    /\ seq_pc = "load"
    /\ seq_content' = [i \in 1..n |-> "a"]
    /\ seq_pc' = "split"
    /\ UNCHANGED <<notSeqVars, seq_chunks, seq_i, seq_results, seq_calls, seq_final,
                   seq_saved>>

\* loader.load() raises: nothing in run_news_extraction catches it
SeqLoadRaise ==
    /\ seq_pc = "load"
    /\ seq_pc' = "raised"
    /\ UNCHANGED <<notSeqVars, seq_content, seq_chunks, seq_i, seq_results, seq_calls,
                   seq_final, seq_saved>>

\* chunks = split_text_into_chunks(content); results = []
SeqSplit ==
    /\ seq_pc = "split"
    /\ seq_chunks' = split_text_into_chunks(seq_content, CHUNK_SIZE, CHUNK_OVERLAP)
    /\ seq_i' = 1
    /\ seq_results' = <<>>
    /\ seq_pc' = "extract"
    /\ UNCHANGED <<notSeqVars, seq_content, seq_calls, seq_final, seq_saved>>

\* extract_from_chunk returns the parsed answer: results.append(news)
SeqExtractOk(news) ==
    /\ seq_pc = "extract"
    /\ seq_i <= Len(seq_chunks)
    /\ seq_results' = Append(seq_results, news)
    /\ seq_calls' = Append(seq_calls, "ok")
    /\ seq_i' = seq_i + 1
    /\ UNCHANGED <<notSeqVars, seq_pc, seq_content, seq_chunks, seq_final, seq_saved>>

\* parser.parse raises inside extract_from_chunk: it returns an empty News
SeqExtractMalformed ==
    /\ seq_pc = "extract"
    /\ seq_i <= Len(seq_chunks)
    /\ seq_results' = Append(seq_results, EmptyNews)
    /\ seq_calls' = Append(seq_calls, "malformed")
    /\ seq_i' = seq_i + 1
    /\ UNCHANGED <<notSeqVars, seq_pc, seq_content, seq_chunks, seq_final, seq_saved>>

\* chain.invoke raises: the loop prints the error and continues
SeqExtractRaise ==
    /\ seq_pc = "extract"
    /\ seq_i <= Len(seq_chunks)
    /\ seq_calls' = Append(seq_calls, "raised")
    /\ seq_i' = seq_i + 1
    /\ UNCHANGED <<notSeqVars, seq_pc, seq_content, seq_chunks, seq_results, seq_final,
                   seq_saved>>

\* final_news = merge_news_results(results); return final_news
SeqMerge ==
    /\ seq_pc = "extract"
    /\ seq_i > Len(seq_chunks)
    /\ seq_final' = merge_news_results(seq_results)
    /\ seq_pc' = "returned"
    /\ UNCHANGED <<notSeqVars, seq_content, seq_chunks, seq_i, seq_results, seq_calls,
                   seq_saved>>

\* __main__, try branch: news = run_news_extraction() has returned; print the
\* three lists and output_path.write_text(json.dumps(news.dict(), ...))
SeqSink ==
    /\ seq_pc = "returned"
    /\ seq_saved' = seq_saved + 1
    /\ seq_pc' = "done"
    /\ UNCHANGED <<notSeqVars, seq_content, seq_chunks, seq_i, seq_results, seq_calls,
                   seq_final>>

\* __main__, except Exception: print the error and the traceback
SeqCatch ==
    /\ seq_pc = "raised"
    /\ seq_pc' = "failed"
    /\ UNCHANGED <<notSeqVars, seq_content, seq_chunks, seq_i, seq_results, seq_calls,
                   seq_final, seq_saved>>

SeqNext ==
    \/ \E n \in ContentLengths : SeqLoad(n)
    \/ SeqLoadRaise
    \/ SeqSplit
    \/ \E news \in ExtractOutputs : SeqExtractOk(news)
    \/ SeqExtractMalformed
    \/ SeqExtractRaise
    \/ SeqMerge
    \/ SeqSink
    \/ SeqCatch

(***************************************************************************)
(* NewsExtractor.run(url), the asyncio pipeline                            *)
(*                                                                         *)
(* A task runs without interruption between two awaits, so each action     *)
(* below is code of one coroutine that no await divides.                   *)
(***************************************************************************)
\* what load_content may return: nothing, or a page
PoolContents == {<<>>, <<"a">>}

\* the ConsolidatedNews objects the consolidation call may return
ConsolidateOutputs ==
    {[summary |-> <<"s">>, companies |-> <<>>, persons |-> <<>>, events |-> <<>>],
     [summary |-> <<"s">>, companies |-> << <<"a">> >>, persons |-> << <<"b">> >>,
      events |-> <<>>]}

\* the process_chunk tasks, one per chunk, once they are created
Tasks == DOMAIN task

\* the extraction calls started and not yet returned or raised
InFlight == {i \in Tasks : task[i] = "running"}

\* before consolidate_results is called
NoContext == [none |-> TRUE]

PoolInit ==
    /\ pc = "load"
    /\ content = <<>>
    /\ nchunks = 0
    /\ concurrency \in -1..MaxConcurrency
    /\ semaphore = 0
    /\ task = <<>>
    /\ call = <<>>
    /\ ret = <<>>
    /\ finished = <<>>
    /\ progress = 0
    /\ raw_results = <<>>
    /\ consolidation = "none"
    /\ final_news = NoNews
    /\ saved = 0
    /\ attempts = <<>>
    /\ consolidate_calls = 0
    /\ context_data = NoContext

PoolIdle ==
    /\ pc = "idle"
    /\ content = <<>>
    /\ nchunks = 0
    /\ concurrency = 0
    /\ semaphore = 0
    /\ task = <<>>
    /\ call = <<>>
    /\ ret = <<>>
    /\ finished = <<>>
    /\ progress = 0
    /\ raw_results = <<>>
    /\ consolidation = "none"
    /\ final_news = NoNews
    /\ saved = 0
    /\ attempts = <<>>
    /\ consolidate_calls = 0
    /\ context_data = NoContext

\* run goes on to split whatever was loaded
AfterLoadNoCheck(c) == "split"

\* if not content: print the error and return; otherwise go on to split_text
AfterLoad(c) == IF c = <<>> THEN "returned" ELSE "split"

\* content = self.load_content(url); if not content: return
Load(c) ==
    /\ pc = "load"
    /\ content' = c
    /\ pc' = AfterLoad(c)
    /\ UNCHANGED <<notPoolVars, nchunks, concurrency, semaphore, task, call, ret,
                   finished, progress, raw_results, consolidation, final_news, saved,
                   attempts, consolidate_calls,
                   context_data>>

\* load_content raises: run has no handler
LoadRaise ==
    /\ pc = "load"
    /\ pc' = "raised"
    /\ UNCHANGED <<notPoolVars, content, nchunks, concurrency, semaphore, task, call,
                   ret, finished, progress, raw_results, consolidation, final_news,
                   saved, attempts, consolidate_calls,
                   context_data>>

\* chunks = self.split_text(content), the library's splitter; then
\* asyncio.Semaphore(MAX_CONCURRENCY), which raises ValueError below 0, the
\* progress bar and one process_chunk task per chunk, up to the await of gather
StartExtraction(n) ==
    /\ pc = "split"
    /\ nchunks' = n
    /\ IF concurrency < 0
       THEN /\ pc' = "raised"
            /\ UNCHANGED <<semaphore, task, call, ret, attempts>>
       ELSE /\ pc' = "gather"
            /\ semaphore' = concurrency
            /\ task' = [i \in 1..n |-> "waiting"]
            /\ call' = [i \in 1..n |-> "none"]
            /\ ret' = [i \in 1..n |-> NoNews]
            /\ attempts' = [i \in 1..n |-> 0]
    /\ UNCHANGED <<notPoolVars, content, concurrency, finished, progress, raw_results,
                   consolidation, final_news, saved, consolidate_calls,
                   context_data>>

\* the semaphore admits whoever asks
AdmitsAlways(value) == TRUE

\* Semaphore.acquire: a permit is free
Admits(value) == value > 0

\* async with semaphore: take a permit, build the prompt, start chain.ainvoke
Acquire(i) ==
    /\ pc = "gather"
    /\ task[i] = "waiting"
    /\ Admits(semaphore)
    /\ semaphore' = semaphore - 1
    /\ task' = [task EXCEPT ![i] = "running"]
    /\ attempts' = [attempts EXCEPT ![i] = @ + 1]
    /\ UNCHANGED <<notPoolVars, pc, content, nchunks, concurrency, call, ret, finished,
                   progress, raw_results, consolidation, final_news, saved,
                   consolidate_calls,
                   context_data>>

\* the permit is given back only when the call succeeded
ReleaseOnSuccessOnly(value, outcome) == IF outcome = "ok" THEN value + 1 ELSE value

\* leaving "async with semaphore", by return from the try branch or from the
\* except branch: Semaphore.release gives the permit back
Release(value, outcome) == value + 1

\* the progress bar left as it was
AdvanceNothing(completed) == completed

\* progress.advance(task_id): one more chunk completed
Advance(completed) == completed + 1

\* the call returns and its answer parses: progress.advance, return parsed_data,
\* release the permit
ExtractOk(i, news) ==
    /\ pc = "gather"
    /\ task[i] = "running"
    /\ call' = [call EXCEPT ![i] = "ok"]
    /\ ret' = [ret EXCEPT ![i] = news]
    /\ progress' = Advance(progress)
    /\ finished' = Append(finished, i)
    /\ semaphore' = Release(semaphore, "ok")
    /\ task' = [task EXCEPT ![i] = "done"]
    /\ UNCHANGED <<notPoolVars, pc, content, nchunks, concurrency, raw_results,
                   consolidation, final_news, saved, attempts, consolidate_calls,
                   context_data>>

\* the chunk is handed to chain.ainvoke once more after its first failure
AfterFailureRetryOnce(n) == IF n < 2 THEN "waiting" ELSE "done"

\* the except branch returns: the task of the chunk is over, whatever the
\* number n of calls it has made
AfterFailure(n) == "done"

\* the call raises or its answer does not parse: except Exception logs it,
\* progress.advance, return News(), release the permit
ExtractFail(i, kind) ==
    /\ pc = "gather"
    /\ task[i] = "running"
    /\ call' = [call EXCEPT ![i] = kind]
    /\ ret' = [ret EXCEPT ![i] = EmptyNews]
    /\ progress' = Advance(progress)
    /\ finished' = Append(finished, i)
    /\ semaphore' = Release(semaphore, kind)
    /\ task' = [task EXCEPT ![i] = AfterFailure(attempts[i])]
    /\ UNCHANGED <<notPoolVars, pc, content, nchunks, concurrency, raw_results,
                   consolidation, final_news, saved, attempts, consolidate_calls,
                   context_data>>

\* the results in the order the tasks finished
GatheredByCompletion == [k \in 1..Len(finished) |-> ret[finished[k]]]

\* asyncio.gather(*tasks): the results in the order of the tasks
Gathered == [k \in Tasks |-> ret[k]]

\* every task is done: raw_results = await asyncio.gather(*tasks)
GatherReturn ==
    /\ pc = "gather"
    /\ \A i \in Tasks : task[i] = "done"
    /\ raw_results' = Gathered
    /\ pc' = "consolidate"
    /\ UNCHANGED <<notPoolVars, content, nchunks, concurrency, semaphore, task, call,
                   ret, finished, progress, consolidation, final_news, saved, attempts,
                   consolidate_calls,
                   context_data>>

\* the strings of a list
Elems(items) == {items[k] : k \in 1..Len(items)}

\* list(set(...)): the members of a set in an order of the interpreter's choosing
ListsOf(S) ==
    {f \in [1..Cardinality(S) -> S] : \A j, k \in DOMAIN f : j # k => f[j] # f[k]}

\* context_data of consolidate_results: per category the set of the strings
\* of all results, as a list
Contexts(rs) ==
    [raw_companies : ListsOf(Elems(Flatten(rs, "companies"))),
     raw_persons : ListsOf(Elems(Flatten(rs, "persons"))),
     raw_events : ListsOf(Elems(Flatten(rs, "events")))]

\* consolidate_results up to its await: it builds the three sets and
\* context_data, then starts chain.ainvoke(context_data) and is suspended
ConsolidateStart ==
    /\ pc = "consolidate"
    /\ context_data' \in Contexts(raw_results)
    /\ consolidate_calls' = consolidate_calls + 1
    /\ pc' = "consolidating"
    /\ UNCHANGED <<notPoolVars, content, nchunks, concurrency, semaphore, task, call,
                   ret, finished, progress, raw_results, consolidation, final_news,
                   saved, attempts>>

\* the consolidation call returns and final_parser.parse accepts its answer:
\* consolidate_results returns it and run assigns final_news
ConsolidateOk(out) ==
    /\ pc = "consolidating"
    /\ consolidation' = "ok"
    /\ final_news' = out
    /\ pc' = "sink"
    /\ UNCHANGED <<notPoolVars, content, nchunks, concurrency, semaphore, task, call,
                   ret, finished, progress, raw_results, saved, attempts,
                   consolidate_calls, context_data>>

\* chain.ainvoke raises or final_parser.parse rejects the answer: neither
\* consolidate_results nor run has a handler
ConsolidateFail(kind) ==
    /\ pc = "consolidating"
    /\ consolidation' = kind
    /\ pc' = "raised"
    /\ UNCHANGED <<notPoolVars, content, nchunks, concurrency, semaphore, task, call,
                   ret, finished, progress, raw_results, final_news, saved, attempts,
                   consolidate_calls, context_data>>

\* self.display_results(final_news); self.save_results(final_news)
Sink ==
    /\ pc = "sink"
    /\ saved' = saved + 1
    /\ pc' = "returned"
    /\ UNCHANGED <<notPoolVars, content, nchunks, concurrency, semaphore, task, call,
                   ret, finished, progress, raw_results, consolidation, final_news,
                   attempts, consolidate_calls,
                   context_data>>

PoolNext ==
    \/ \E c \in PoolContents : Load(c)
    \/ LoadRaise
    \/ \E n \in 0..MaxChunks : StartExtraction(n)
    \/ \E i \in Tasks : Acquire(i)
    \/ \E i \in Tasks : \E news \in ExtractOutputs : ExtractOk(i, news)
    \/ \E i \in Tasks : \E kind \in FailureKinds : ExtractFail(i, kind)
    \/ GatherReturn
    \/ ConsolidateStart
    \/ \E out \in ConsolidateOutputs : ConsolidateOk(out)
    \/ \E kind \in FailureKinds : ConsolidateFail(kind)
    \/ Sink

(***************************************************************************)
(* parse_news_response(content) (news_extraction_playwright.py)            *)
(*                                                                         *)
(* A payload is the list of the (key, value) pairs of the decoded JSON     *)
(* object, in the order of the dict.                                       *)
(***************************************************************************)
\* the aliases of every field of News, in the order they are tried
FIELD_ALIASES ==
    [persons |->
        <<<<"p", "e", "r", "s", "o", "n", "s">>,
          <<"p", "e", "r", "s", "o", "n", "a", "s">>,
          <<"p", "e", "o", "p", "l", "e">>,
          <<"i", "n", "d", "i", "v", "i", "d", "u", "o", "s">>>>,
     companies |->
        <<<<"c", "o", "m", "p", "a", "n", "i", "e", "s">>,
          <<"e", "m", "p", "r", "e", "s", "a", "s">>,
          <<"o", "r", "g", "a", "n", "i", "z", "a", "t", "i", "o", "n", "s">>,
          <<"o", "r", "g", "a", "n", "i", "z", "a", "c", "i", "o", "n", "e", "s">>>>,
     events |->
        <<<<"e", "v", "e", "n", "t", "s">>,
          <<"e", "v", "e", "n", "t", "o", "s">>,
          <<"h", "e", "c", "h", "o", "s">>,
          <<"a", "c", "o", "n", "t", "e", "c", "i", "m", "i", "e", "n", "t", "o", "s">>>>]

\* the keys an answer may carry: aliases in several casings, two casings of
\* one alias, and a key that is no alias
PayloadKeys ==
    {<<"p", "e", "r", "s", "o", "n", "s">>,
     <<"P", "e", "r", "s", "o", "n", "s">>,
     <<"P", "E", "O", "P", "L", "E">>,
     <<"E", "m", "p", "r", "e", "s", "a", "s">>,
     <<"E", "V", "E", "N", "T", "O", "S">>,
     <<"l", "u", "g", "a", "r", "e", "s">>}

\* the values an answer may carry: null, a list, a string, a blank string, a number
PayloadValues ==
    {[kind |-> "none"],
     [kind |-> "list", items |-> << <<" ", "A", " ">>, <<>>, <<"b">> >>],
     [kind |-> "str", s |-> <<" ", "b", " ">>],
     [kind |-> "str", s |-> <<" ">>],
     [kind |-> "other", s |-> <<"7">>]}

\* [str(item).strip() for item in value if str(item).strip()]
RECURSIVE StripItems(_)
StripItems(items) ==
    IF items = <<>> THEN <<>>
    ELSE IF Strip(Head(items)) # <<>>
         THEN <<Strip(Head(items))>> \o StripItems(Tail(items))
         ELSE StripItems(Tail(items))

coerce_list(value) ==
    CASE value.kind = "none" -> <<>>
      [] value.kind = "list" -> StripItems(value.items)
      [] value.kind = "str" -> IF Strip(value.s) # <<>> THEN <<Strip(value.s)>> ELSE <<>>
      [] OTHER -> <<Strip(value.s)>>

\* the key as it is: no lower()
KeyFormExact(key) == key

\* key.lower()
KeyForm(key) == Lower(key)

\* alias in lowered_keys
InLoweredKeys(payload, alias) == \E i \in DOMAIN payload : KeyForm(payload[i].key) = alias

\* lowered_keys[alias]: of the keys with one lowered form the dict keeps the last
LoweredKey(payload, alias) ==
    LET last == CHOOSE i \in DOMAIN payload :
                    /\ KeyForm(payload[i].key) = alias
                    /\ \A j \in DOMAIN payload : KeyForm(payload[j].key) = alias => j <= i
    IN  payload[last].key

\* payload.get(key, [])
PayloadGet(payload, key) ==
    IF \E i \in DOMAIN payload : payload[i].key = key
    THEN (payload[CHOOSE i \in DOMAIN payload : payload[i].key = key]).value
    ELSE [kind |-> "list", items |-> <<>>]

\* next((lowered_keys[alias] for alias in aliases if alias in lowered_keys), None)
\* and the value selected with it, coerced
NormalizedField(payload, aliases) ==
    LET found == {a \in DOMAIN aliases : InLoweredKeys(payload, aliases[a])}
    IN  IF found = {} THEN coerce_list([kind |-> "list", items |-> <<>>])
        ELSE coerce_list(PayloadGet(payload, LoweredKey(payload, aliases[Nth(found, 1)])))

\* News(**normalized)
NewsOfPayload(payload) ==
    News(NormalizedField(payload, FIELD_ALIASES.companies),
         NormalizedField(payload, FIELD_ALIASES.persons),
         NormalizedField(payload, FIELD_ALIASES.events))

\* every answer that decodes to a JSON object of at most MaxKeys keys, and an
\* answer that is not JSON
ParseInit ==
    /\ \/ \E n \in 0..MaxKeys :
              \E ks \in {f \in [1..n -> PayloadKeys] :
                             \A j, k \in 1..n : j # k => f[j] # f[k]} :
                  \E vs \in [1..n -> PayloadValues] :
                      response = [kind |-> "json",
                                  payload |-> [i \in 1..n |->
                                                  [key |-> ks[i], value |-> vs[i]]]]
       \/ response = [kind |-> "invalid"]
    /\ parsed = NoNews
    /\ parse_pc = "call"

ParseIdle ==
    /\ response = [kind |-> "invalid"]
    /\ parsed = NoNews
    /\ parse_pc = "idle"

\* the content decodes to a dict: return News(**normalized)
ParseReturn ==
    /\ parse_pc = "call"
    /\ response.kind = "json"
    /\ parsed' = NewsOfPayload(response.payload)
    /\ parse_pc' = "returned"
    /\ UNCHANGED <<notParseVars, response>>

\* json.loads raises, or the content is neither str nor dict: raise ValueError
ParseRaise ==
    /\ parse_pc = "call"
    /\ response.kind = "invalid"
    /\ parse_pc' = "raised"
    /\ UNCHANGED <<notParseVars, response, parsed>>

ParseNext == ParseReturn \/ ParseRaise

(***************************************************************************)
(* run_news_extraction(url) of news_extraction_playwright.py: the model is *)
(* asked, and asked again after every round of tool calls it requests.     *)
(***************************************************************************)
\* the names of the registered executors
TOOL_EXECUTORS == {"fetch_url_content"}

\* a tool call the model may request: a registered name or another, with
\* arguments that are a dict the executor accepts ("dict"), a string that is
\* not JSON ("bad_json"), or a dict the executor does not accept ("bad_kwargs")
ToolCalls ==
    [name : {"fetch_url_content", "other_tool"},
     arguments : {"dict", "bad_json", "bad_kwargs"}]

\* the payloads the content of an answer may decode to
ToolPayloads ==
    {<<>>,
     << [key |-> <<"P", "e", "r", "s", "o", "n", "a", "s">>,
         value |-> [kind |-> "str", s |-> <<"a">>]] >>}

\* response.message: its tool_calls, and its content, JSON or not
Messages ==
    [tool_calls : SeqsUpTo(ToolCalls, MaxToolCalls),
     content : {[kind |-> "invalid"]} \cup
               {[kind |-> "json", payload |-> pl] : pl \in ToolPayloads}]

NoMessage == [none |-> TRUE]

\* what becomes of one tool call: json.loads(arguments), TOOL_EXECUTORS.get,
\* executor(**payload), out being what the executor does when it is entered
CallOutcome(tc, out) ==
    IF tc.arguments = "bad_json" THEN "bad_arguments"
    ELSE IF tc.name \notin TOOL_EXECUTORS THEN "unknown_tool"
    ELSE IF tc.arguments = "bad_kwargs" THEN "bad_arguments"
    ELSE IF out = "raise" THEN "tool_failed"
    ELSE "ok"

\* the tool calls that do not complete, by position
Failures(calls, outs) == {k \in DOMAIN calls : CallOutcome(calls[k], outs[k]) # "ok"}

\* while tool_calls: the loop goes on as long as the model asks for tools
LoopGoesOnUnbounded(msg, it) == msg.tool_calls # <<>>

\* while getattr(response.message, "tool_calls", None) and iteration < max_iterations
LoopGoesOn(msg, it) == msg.tool_calls # <<>> /\ it < max_iterations

ToolInit ==
    /\ tool_pc = "start"
    /\ iteration = 0
    /\ model_calls = 0
    /\ message = NoMessage
    /\ tool_messages = 0
    /\ tool_cause = "none"
    /\ tool_news = NoNews

ToolIdle ==
    /\ tool_pc = "idle"
    /\ iteration = 0
    /\ model_calls = 0
    /\ message = NoMessage
    /\ tool_messages = 0
    /\ tool_cause = "none"
    /\ tool_news = NoNews

\* response = call_model(messages); iteration = 0
FirstCall(msg) ==
    /\ tool_pc = "start"
    /\ model_calls' = model_calls + 1
    /\ message' = msg
    /\ tool_pc' = "loop"
    /\ UNCHANGED <<notToolVars, iteration, tool_messages, tool_cause, tool_news>>

\* the first call_model raises: run_news_extraction has no handler
FirstCallRaise ==
    /\ tool_pc = "start"
    /\ model_calls' = model_calls + 1
    /\ tool_cause' = "model_failed"
    /\ tool_pc' = "raised"
    /\ UNCHANGED <<notToolVars, iteration, message, tool_messages, tool_news>>

\* every executor entered returns
AllReturn(calls) == [k \in DOMAIN calls |-> "ok"]

\* one run of the loop body: iteration += 1, the tool calls of the answer in
\* turn, their results appended to messages, until one does not complete:
\* its exception leaves run_news_extraction
LoopBodyToolRaise(outs) ==
    /\ tool_pc = "loop"
    /\ LoopGoesOn(message, iteration)
    /\ Failures(message.tool_calls, outs) # {}
    /\ iteration' = iteration + 1
    /\ LET calls == message.tool_calls
           first == Nth(Failures(calls, outs), 1)
       IN  /\ tool_messages' = tool_messages + first - 1
           /\ tool_cause' = CallOutcome(calls[first], outs[first])
    /\ tool_pc' = "raised"
    /\ UNCHANGED <<notToolVars, model_calls, message, tool_news>>

\* one run of the loop body: iteration += 1, every tool call of the answer
\* completes and its result is appended to messages, then
\* response = call_model(messages)
LoopBody(msg) ==
    /\ tool_pc = "loop"
    /\ LoopGoesOn(message, iteration)
    /\ Failures(message.tool_calls, AllReturn(message.tool_calls)) = {}
    /\ iteration' = iteration + 1
    /\ tool_messages' = tool_messages + Len(message.tool_calls)
    /\ model_calls' = model_calls + 1
    /\ message' = msg
    /\ UNCHANGED <<notToolVars, tool_pc, tool_cause, tool_news>>

\* the same, but call_model(messages) raises
LoopBodyModelRaise ==
    /\ tool_pc = "loop"
    /\ LoopGoesOn(message, iteration)
    /\ Failures(message.tool_calls, AllReturn(message.tool_calls)) = {}
    /\ iteration' = iteration + 1
    /\ tool_messages' = tool_messages + Len(message.tool_calls)
    /\ model_calls' = model_calls + 1
    /\ tool_cause' = "model_failed"
    /\ tool_pc' = "raised"
    /\ UNCHANGED <<notToolVars, message, tool_news>>

\* the executors of the answer's tool calls return or raise
ToolRaises ==
    /\ tool_pc = "loop"
    /\ \E outs \in [1..Len(message.tool_calls) -> {"ok", "raise"}] : LoopBodyToolRaise(outs)

\* the loop is over: return parse_news_response(response.message.content)
ParseLast ==
    /\ tool_pc = "loop"
    /\ ~LoopGoesOn(message, iteration)
    /\ IF message.content.kind = "json"
       THEN /\ tool_news' = NewsOfPayload(message.content.payload)
            /\ tool_cause' = "parsed"
            /\ tool_pc' = "returned"
       ELSE /\ tool_cause' = "parse_error"
            /\ tool_pc' = "raised"
            /\ UNCHANGED tool_news
    /\ UNCHANGED <<notToolVars, iteration, model_calls, message, tool_messages>>

ToolNext ==
    \/ \E msg \in Messages : FirstCall(msg)
    \/ FirstCallRaise
    \/ ToolRaises
    \/ \E msg \in Messages : LoopBody(msg)
    \/ LoopBodyModelRaise
    \/ ParseLast

(***************************************************************************)
(* The specifications.                                                     *)
(***************************************************************************)
InitSplit == SplitInit /\ MergeIdle /\ SeqIdle /\ PoolIdle /\ ParseIdle /\ ToolIdle
InitMerge == SplitIdle /\ MergeInit /\ SeqIdle /\ PoolIdle /\ ParseIdle /\ ToolIdle
InitSeq == SplitIdle /\ MergeIdle /\ SeqInit /\ PoolIdle /\ ParseIdle /\ ToolIdle
Init == SplitIdle /\ MergeIdle /\ SeqIdle /\ PoolInit /\ ParseIdle /\ ToolIdle
InitParse == SplitIdle /\ MergeIdle /\ SeqIdle /\ PoolIdle /\ ParseInit /\ ToolIdle
InitTool == SplitIdle /\ MergeIdle /\ SeqIdle /\ PoolIdle /\ ParseIdle /\ ToolInit

Next == PoolNext

SpecSplit == InitSplit /\ [][SplitNext]_vars

\* the interpreter keeps running the loop of a call
SpecSplitFair == InitSplit /\ [][SplitNext]_vars /\ WF_vars(SplitNext)
SpecMerge == InitMerge /\ [][MergeNext]_vars
SpecSeq == InitSeq /\ [][SeqNext]_vars
SpecParse == InitParse /\ [][ParseNext]_vars

\* the interpreter keeps running the call: every model call and every tool
\* returns or raises
SpecTool == InitTool /\ [][ToolNext]_vars /\ WF_vars(ToolNext)
Spec == Init /\ [][Next]_vars

\* one run of either pipeline: the sequential script or the asyncio script
InitPipelines == InitSeq \/ Init
NextPipelines == SeqNext \/ PoolNext
SpecPipelines == InitPipelines /\ [][NextPipelines]_vars

\* the event loop runs every task that is ready: a waiting task gets a free
\* permit, and every call that was started returns or raises
Fairness ==
    /\ WF_vars(\E i \in Tasks : Acquire(i))
    /\ WF_vars(\E i \in Tasks :
                  \/ \E news \in ExtractOutputs : ExtractOk(i, news)
                  \/ \E kind \in FailureKinds : ExtractFail(i, kind))

SpecFair == Init /\ [][Next]_vars /\ Fairness

(***************************************************************************)
(* Properties of the asyncio pool.                                         *)
(***************************************************************************)
\* C1: with a concurrency limit of at least 1, the extraction calls started
\* and not yet returned or raised never number more than the limit
C1_BoundedConcurrency ==
    concurrency >= 1 => Cardinality(InFlight) <= concurrency

\* the limit binds: as many calls in flight as permits, and a task kept waiting
C1_Witness ==
    /\ concurrency >= 1
    /\ pc = "gather"
    /\ Cardinality(InFlight) = concurrency
    /\ \E i \in Tasks : task[i] = "waiting"

\* gather has handed its list to run
GatherReturned == pc \in {"consolidate", "consolidating", "sink"} \/ consolidation # "none"

\* C2: whatever the order in which the calls complete, position i of the
\* list the pool returns holds the result computed from chunk i
C2_ResultsInChunkOrder ==
    GatherReturned =>
        /\ Len(raw_results) = nchunks
        /\ \A i \in Tasks : raw_results[i] = ret[i]

\* the last chunk finished first, with a result unlike the first chunk's
C2_Witness ==
    /\ GatherReturned
    /\ nchunks >= 2
    /\ finished[1] = nchunks
    /\ ret[nchunks] # ret[1]

\* C11: chain.ainvoke is called exactly once for every chunk and the
\* consolidation call at most once: no chunk has a second call, failed or
\* not, every chunk has had its call when gather returns, and with a limit of
\* at least 1 every chunk of the pool eventually has its call
C11_ExactlyOnce ==
    /\ [](\A i \in Tasks : attempts[i] <= 1)
    /\ [](consolidate_calls <= 1)
    /\ [](GatherReturned => \A i \in Tasks : attempts[i] = 1)
    /\ \A i \in 1..MaxChunks :
           (pc = "gather" /\ concurrency >= 1 /\ i \in Tasks)
               ~> (i \in Tasks /\ attempts[i] = 1)

\* a run of two chunks or more is over, a chunk failed, every chunk had one
\* call and the consolidation one call
C11_Witness ==
    /\ pc = "returned"
    /\ nchunks >= 2
    /\ \E i \in Tasks : call[i] \in FailureKinds
    /\ \A i \in Tasks : attempts[i] = 1
    /\ consolidate_calls = 1

\* a result that carries failed = true
HasFailedFlag(r) == "failed" \in DOMAIN r /\ r["failed"] = TRUE

\* C4: a chunk whose extraction call failed has a recorded result with empty
\* companies, persons and events and failed = true, unlike the result of a
\* successful extraction that found nothing
C4_FailureRecordedAsFailed ==
    \A i \in Tasks :
        call[i] \in FailureKinds =>
            /\ ret[i].companies = <<>> /\ ret[i].persons = <<>> /\ ret[i].events = <<>>
            /\ HasFailedFlag(ret[i])
            /\ \A j \in Tasks : call[j] = "ok" => ret[j] # ret[i]

\* run is over: it returned or an exception left it
Terminated == pc \in {"returned", "raised"}

\* the key of the union merge: trimmed, lower-cased
Key(s) == Lower(Strip(s))

\* every entity of r is in final, up to the key
ContainsEntitiesOf(final, r) ==
    \A cat \in Categories :
        \A k \in 1..Len(r[cat]) :
            Key(r[cat][k]) # <<>> =>
                \E m \in 1..Len(final[cat]) : Key(final[cat][m]) = Key(r[cat][k])

\* C5: a run in which extraction calls failed still ends in Done, with a
\* result that contains the entities of every chunk that did not fail
C5_PartialFailureIsolation ==
    (Terminated /\ \E i \in Tasks : call[i] \in FailureKinds) =>
        /\ pc = "returned"
        /\ final_news # NoNews
        /\ \A i \in Tasks : call[i] = "ok" => ContainsEntitiesOf(final_news, ret[i])

\* C6: a run whose consolidation call raised or returned an answer that does
\* not parse still ends in Done, its result the union merge of the results,
\* without a summary
C6_ConsolidationFallback ==
    (Terminated /\ consolidation \in FailureKinds) =>
        /\ pc = "returned"
        /\ final_news = merge_news_results(raw_results)

\* C18: the three raw lists handed to the consolidation call hold, category
\* by category, the strings of the union merge of the same results (one per
\* trimmed and lower-cased key, the first occurrence, no empty string), and
\* the call is made exactly once with all three
C18_RawMaterialIsUnionMerge ==
    consolidate_calls > 0 =>
        /\ consolidate_calls = 1
        /\ DOMAIN context_data = {"raw_companies", "raw_persons", "raw_events"}
        /\ LET union == merge_news_results(raw_results)
           IN  /\ Len(context_data.raw_companies) = Len(union.companies)
               /\ Elems(context_data.raw_companies) = Elems(union.companies)
               /\ Len(context_data.raw_persons) = Len(union.persons)
               /\ Elems(context_data.raw_persons) = Elems(union.persons)
               /\ Len(context_data.raw_events) = Len(union.events)
               /\ Elems(context_data.raw_events) = Elems(union.events)

\* C12: with a concurrency limit of at least 1 an exception leaves run only
\* while it loads or splits: once the extraction has begun no step ends the
\* run with an exception, and a run that got as far as its consolidation call
\* ends returned, with a result
C12_FailedOnlyBeforeExtracting ==
    /\ [][(concurrency >= 1 /\ pc' = "raised") => pc \in {"load", "split"}]_vars
    /\ []((concurrency >= 1 /\ Terminated /\ consolidate_calls > 0) =>
              (pc = "returned" /\ final_news # NoNews))

\* C15: the completed count of the progress bar never decreases, counts every
\* chunk whose extraction finished exactly once, failed or not and in whatever
\* order the chunks finish, and is the number of chunks when gather returns
C15_ProgressCount ==
    /\ [][progress' >= progress]_vars
    /\ [](progress = Cardinality({i \in Tasks : task[i] = "done"}))
    /\ [](progress = Len(finished))
    /\ [](GatherReturned => progress = nchunks)

\* gather returned after the second chunk finished first, one chunk failed
\* and one did not
C15_Witness ==
    /\ GatherReturned
    /\ nchunks >= 2
    /\ finished[1] = 2
    /\ \E i \in Tasks : call[i] \in FailureKinds
    /\ \E i \in Tasks : call[i] = "ok"
    /\ progress = nchunks

\* every task of the pool waits for a permit and the semaphore has none
AllWaitingForAdmission ==
    /\ pc = "gather"
    /\ Tasks # {}
    /\ \A i \in Tasks : task[i] = "waiting"
    /\ ~Admits(semaphore)

\* C14: a run with a concurrency limit below 1 ends in failure before any
\* extraction call: no chunk ever has a call, the tasks never all wait for a
\* permit that does not exist, and a run that loaded a page ends raised
C14_ConcurrencyFailFast ==
    concurrency < 1 =>
        /\ \A i \in Tasks : attempts[i] = 0
        /\ ~AllWaitingForAdmission
        /\ (Terminated /\ content # <<>>) => pc = "raised"

(***************************************************************************)
(* Properties of the sequential pipeline.                                  *)
(***************************************************************************)
\* C3: the list of partial results handed to the merger has one entry per
\* chunk, also when extraction calls raised
C3_OneEntryPerChunk ==
    seq_pc = "returned" => Len(seq_results) = Len(seq_chunks)

\* C13: a run whose loader supplied no content ends in failure: it produces
\* no chunk, makes no extraction call and does not return a result, empty or
\* not, as a run that reached Done does
C13_EmptyContentFails ==
    (seq_pc \notin {"idle", "load"} /\ seq_content = <<>>) =>
        /\ seq_chunks = <<>>
        /\ seq_calls = <<>>
        /\ seq_pc # "returned"
        /\ seq_final = NoNews

(***************************************************************************)
(* Properties of the chunker.                                              *)
(***************************************************************************)
ValidConfig == chunk_size > 0 /\ 0 <= overlap /\ overlap < chunk_size

\* the positions of the text a chunk covers, counted from 0
Range(o) == o.start_offset .. (o.end_offset - 1)

\* C7: with a valid configuration the chunk ranges lie inside the text and
\* their union is [0, len(text)); each chunk is the text of its range
C7_Coverage ==
    (split_pc = "returned" /\ ValidConfig) =>
        /\ Len(offsets) = Len(chunks)
        /\ \A k \in 1..Len(chunks) :
               /\ 0 <= offsets[k].start_offset
               /\ offsets[k].start_offset <= offsets[k].end_offset
               /\ offsets[k].end_offset <= Len(text)
               /\ chunks[k] = SubSeq(text, offsets[k].start_offset + 1,
                                    offsets[k].end_offset)
        /\ UNION {Range(offsets[k]) : k \in 1..Len(offsets)} = 0..(Len(text) - 1)

\* three chunks or more that overlap, the last one cut short by the end of the text
C7_Witness ==
    /\ split_pc = "returned"
    /\ ValidConfig
    /\ overlap > 0
    /\ Len(chunks) >= 3
    /\ Len(chunks[Len(chunks)]) < chunk_size

\* the offset of the first character of chunk k, counted from 0
StartOf(k) == offsets[k].start_offset

\* C16: with a valid configuration the call returns; chunk k, counted from 0,
\* starts at k * (chunk_size - overlap), the starts increase strictly, and
\* the number of chunks is the least n with n * (chunk_size - overlap) >=
\* len(text): none for the empty text, and 3 chunks at 0, 1900 and 3800 for
\* 4300 characters with chunk_size 2000 and overlap 100
C16_OffsetsAndCount ==
    /\ ValidConfig ~> (split_pc = "returned")
    /\ [](ValidConfig =>
              /\ \A k \in 1..Len(offsets) : StartOf(k) = (k - 1) * (chunk_size - overlap)
              /\ \A k \in 1..(Len(offsets) - 1) : StartOf(k) < StartOf(k + 1))
    /\ []((split_pc = "returned" /\ ValidConfig) =>
              LET n == Len(chunks)
                  step == chunk_size - overlap
              IN  /\ n * step >= Len(text)
                  /\ \A m \in 0..(n - 1) : m * step < Len(text)
                  /\ text = <<>> => n = 0
                  /\ (Len(text) = 4300 /\ chunk_size = 2000 /\ overlap = 100) =>
                         (n = 3 /\ StartOf(1) = 0 /\ StartOf(2) = 1900
                                /\ StartOf(3) = 3800))

\* the long page was split with the defaults into its third chunk
C16_Witness ==
    /\ split_pc = "returned"
    /\ Len(text) = 4300
    /\ chunk_size = 2000
    /\ overlap = 100
    /\ Len(chunks) = 3

\* the last n characters of s, the first n characters of s (all of s when shorter)
Trailing(s, n) == SubSeq(s, Len(s) - Min(n, Len(s)) + 1, Len(s))
Leading(s, n) == SubSeq(s, 1, Min(n, Len(s)))

\* chunk i ends with what chunk i+1 starts with
OverlapHolds(i) == Trailing(chunks[i], overlap) = Leading(chunks[i + 1], overlap)

\* C8 as stated: with a valid configuration every pair of consecutive chunks
\* but possibly the last shares its overlap characters
C8_OverlapButLastPair ==
    (split_pc = "returned" /\ ValidConfig) =>
        \A i \in 1..(Len(chunks) - 2) : OverlapHolds(i)

\* C8 amended: with a valid configuration every pair of consecutive chunks
\* whose first chunk has the full length chunk_size shares its overlap
\* characters; with 2 * overlap <= chunk_size that is every pair but possibly
\* the last
C8_OverlapOfFullChunks ==
    (split_pc = "returned" /\ ValidConfig) =>
        /\ \A i \in 1..(Len(chunks) - 1) :
               Len(chunks[i]) = chunk_size => OverlapHolds(i)
        /\ 2 * overlap <= chunk_size =>
               \A i \in 1..(Len(chunks) - 2) : OverlapHolds(i)

\* a full first chunk overlapping its successor, ahead of the last pair
C8_Witness ==
    /\ split_pc = "returned"
    /\ ValidConfig
    /\ overlap > 0
    /\ Len(chunks) >= 3
    /\ Len(chunks[1]) = chunk_size

\* C20 as stated: with a valid configuration every chunk is non-empty and at
\* most chunk_size long, and every chunk but the last has exactly chunk_size
\* characters
C20_OnlyLastShorter ==
    (split_pc = "returned" /\ ValidConfig) =>
        /\ \A k \in 1..Len(chunks) : 1 <= Len(chunks[k]) /\ Len(chunks[k]) <= chunk_size
        /\ \A k \in 1..(Len(chunks) - 1) : Len(chunks[k]) = chunk_size

\* C20 amended: with a valid configuration every chunk is non-empty and at
\* most chunk_size long; a chunk is shorter than chunk_size only if it ends
\* at the end of the text, every chunk that starts at len(text) - chunk_size
\* or before has exactly chunk_size characters, and with overlap 0 only the
\* last chunk may be shorter
C20_ShortOnlyAtEndOfText ==
    (split_pc = "returned" /\ ValidConfig) =>
        /\ \A k \in 1..Len(chunks) :
               /\ 1 <= Len(chunks[k])
               /\ Len(chunks[k]) <= chunk_size
               /\ Len(chunks[k]) < chunk_size => offsets[k].end_offset = Len(text)
               /\ StartOf(k) + chunk_size <= Len(text) => Len(chunks[k]) = chunk_size
        /\ overlap = 0 => \A k \in 1..(Len(chunks) - 1) : Len(chunks[k]) = chunk_size

\* a full chunk, then a chunk cut short by the end of the text that is not
\* the last one
C20_Witness ==
    /\ split_pc = "returned"
    /\ ValidConfig
    /\ Len(chunks) >= 3
    /\ Len(chunks[1]) = chunk_size
    /\ Len(chunks[Len(chunks) - 1]) < chunk_size
    /\ Len(chunks[Len(chunks)]) < Len(chunks[Len(chunks) - 1])

\* C9: with overlap >= chunk_size the call fails before it produces a chunk:
\* it emits no chunk and does not return
C9_FailFast ==
    overlap >= chunk_size => (chunks = <<>> /\ split_pc # "returned")

(***************************************************************************)
(* Properties of the union merge.                                          *)
(***************************************************************************)
\* the positions of flat whose key is not empty and occurs there first
FirstOccurrences(flat) ==
    {j \in 1..Len(flat) :
        Key(flat[j]) # <<>> /\ \A k \in 1..(j - 1) : Key(flat[k]) # Key(flat[j])}

\* C10: each category of the merge is the flattened strings of that category
\* reduced to the first occurrence of every non-empty key, trimmed, in its
\* original casing and in order of first occurrence; every non-empty key has
\* exactly one output element and no output element has an empty key
C10_MergeUnion ==
    merge_pc = "returned" =>
        \A cat \in Categories :
            LET flat == Flatten(results, cat)
                first == FirstOccurrences(flat)
                out == merged[cat]
            IN  /\ Len(out) = Cardinality(first)
                /\ \A k \in 1..Len(out) : out[k] = Strip(flat[Nth(first, k)])
                /\ \A j \in 1..Len(flat) :
                       Key(flat[j]) # <<>> =>
                           Cardinality({m \in 1..Len(out) : Key(out[m]) = Key(flat[j])}) = 1
                /\ \A m \in 1..Len(out) : Key(out[m]) # <<>>

\* two results with the same key in one category, cased or spaced differently,
\* the second occurrence dropped
C10_Witness ==
    /\ merge_pc = "returned"
    /\ Len(results) = 2
    /\ \E cat \in Categories :
           /\ results[1][cat] # <<>>
           /\ results[2][cat] # <<>>
           /\ Key(results[1][cat][1]) = Key(results[2][cat][1])
           /\ results[1][cat][1] # results[2][cat][1]
           /\ Strip(results[1][cat][1]) # Key(results[1][cat][1])
           /\ Len(merged[cat]) < Len(Flatten(results, cat))

\* C17: the merge is idempotent: the merge of the one-element list that holds
\* a merge result is that result, category by category and in the same order
C17_MergeIdempotent ==
    merge_pc = "remerged" =>
        /\ remerged = merged
        /\ \A cat \in Categories : remerged[cat] = merged[cat]

\* a merge that dropped a repeated key, trimmed a string and kept two strings
\* of one category was merged again
C17_Witness ==
    /\ merge_pc = "remerged"
    /\ \E cat \in Categories :
           LET flat == Flatten(results, cat)
           IN  /\ Len(merged[cat]) >= 2
               /\ Len(merged[cat]) < Len(flat)
               /\ \E k \in 1..Len(flat) : Strip(flat[k]) # flat[k]

(***************************************************************************)
(* Properties of parse_news_response.                                      *)
(***************************************************************************)
\* the key, compared without regard to case, is an alias of the field
IsAliasOf(key, field) ==
    \E a \in DOMAIN FIELD_ALIASES[field] : Lower(key) = FIELD_ALIASES[field][a]

\* the pair has a key that is an alias of some field
Recognized(entry) == \E field \in Categories : IsAliasOf(entry.key, field)

\* C19: the parsed News has exactly the fields companies, persons and events;
\* a field is the coerced value of a payload key that is one of its aliases
\* up to case, or the empty list when the payload has no such key; and the
\* keys that are no alias change nothing
C19_AliasesCaseInsensitive ==
    parse_pc = "returned" =>
        LET payload == response.payload
            matching(field) == {i \in DOMAIN payload : IsAliasOf(payload[i].key, field)}
        IN  /\ DOMAIN parsed = Categories
            /\ \A field \in Categories :
                   IF matching(field) = {}
                   THEN parsed[field] = <<>>
                   ELSE \E i \in matching(field) :
                            parsed[field] = coerce_list(payload[i].value)
            /\ parsed = NewsOfPayload(SelectSeq(payload, Recognized))

\* an answer with a key that is no alias, an alias not in lower case whose
\* strings were taken, and a field without any key
C19_Witness ==
    /\ parse_pc = "returned"
    /\ \E i \in DOMAIN response.payload : ~Recognized(response.payload[i])
    /\ \E i \in DOMAIN response.payload :
           /\ response.payload[i].key # Lower(response.payload[i].key)
           /\ \E field \in Categories :
                  /\ IsAliasOf(response.payload[i].key, field)
                  /\ parsed[field] # <<>>
    /\ \E field \in Categories :
           \A i \in DOMAIN response.payload : ~IsAliasOf(response.payload[i].key, field)

(***************************************************************************)
(* Properties of the tool loop.                                            *)
(***************************************************************************)
\* run_news_extraction is over: it returned or an exception left it
ToolTerminated == tool_pc \in {"returned", "raised"}

\* C21 as stated: whatever the model answers, the loop body runs at most
\* max_iterations times and the model is called at most max_iterations + 1
\* times; the run ends, by parsing the last answer or, when it raises in the
\* loop, because a requested tool has no registered executor (a model call
\* or an executor that itself fails set aside)
C21_EndsByParsingOrUnknownTool ==
    /\ [](iteration <= max_iterations)
    /\ [](model_calls <= max_iterations + 1)
    /\ <>ToolTerminated
    /\ [](tool_pc = "returned" => tool_cause = "parsed")
    /\ [](tool_pc = "raised" =>
              tool_cause \in {"parse_error", "unknown_tool", "model_failed",
                              "tool_failed"})

\* C21 amended: whatever the model answers, the loop body runs at most
\* max_iterations times and the model is called at most max_iterations + 1
\* times; the run ends, by parsing the last answer or by an exception of the
\* loop: a tool without registered executor, arguments that do not decode or
\* that the executor does not accept, an executor that raises, or a model
\* call that raises
C21_BoundedToolLoop ==
    /\ [](iteration <= max_iterations)
    /\ [](model_calls <= max_iterations + 1)
    /\ [](model_calls <= iteration + 1)
    /\ <>ToolTerminated
    /\ [](tool_pc = "returned" =>
              (tool_cause = "parsed"
                  /\ tool_news = NewsOfPayload(message.content.payload)))
    /\ [](tool_pc = "raised" =>
              tool_cause \in {"parse_error", "unknown_tool", "bad_arguments",
                              "tool_failed", "model_failed"})

\* the model asked for a tool in every answer: the loop body ran
\* max_iterations times, the model was called once more than that, and the
\* last answer, which asks for a tool again, was parsed
C21_Witness ==
    /\ tool_pc = "returned"
    /\ iteration = max_iterations
    /\ model_calls = max_iterations + 1
    /\ message.tool_calls # <<>>
    /\ tool_messages >= max_iterations

(***************************************************************************)
(* The admission permits of the pool                                       *)
(***************************************************************************)
\* asyncio.Semaphore(MAX_CONCURRENCY) has been constructed
SemaphoreCreated == pc = "gather" \/ GatherReturned

\* the tasks blocked in "async with semaphore"
Blocked == {i \in Tasks : task[i] = "waiting"}

\* C22: once the semaphore exists, the free permits and the workers holding
\* one are never negative in number and add up to the concurrency limit; and
\* once gather has returned, every permit is free again and no worker is
\* blocked waiting for admission, whether its call succeeded or failed.
C22_PermitsConserved ==
    /\ SemaphoreCreated =>
          /\ semaphore >= 0
          /\ Cardinality(InFlight) >= 0
          /\ semaphore + Cardinality(InFlight) = concurrency
    /\ GatherReturned =>
          /\ semaphore = concurrency
          /\ InFlight = {}
          /\ Blocked = {}

\* gather has returned from more chunks than permits, one call having
\* succeeded and another failed, and every permit is free
C22_Witness ==
    /\ GatherReturned
    /\ concurrency >= 1
    /\ nchunks > concurrency
    /\ \E i \in Tasks : call[i] = "ok"
    /\ \E i \in Tasks : call[i] \in FailureKinds
    /\ semaphore = concurrency

(***************************************************************************)
(* The output sink of the two scripts                                      *)
(***************************************************************************)
\* the asyncio run is over without a final result: an exception left run, or
\* run returned on empty content
PoolEndedWithoutResult ==
    \/ pc = "raised"
    \/ pc = "returned" /\ content = <<>>

\* C23: in either script the sink (display and file write) runs at most
\* once; when it has run, every extraction call has completed and the merge /
\* consolidation step has returned the final result; and a run that ended in
\* an exception, or that returned early on empty content, has written nothing.
C23_SinkOnceAfterFinalResult ==
    /\ saved <= 1
    /\ seq_saved <= 1
    /\ saved > 0 =>
          /\ \A i \in Tasks : task[i] = "done"
          /\ consolidation = "ok"
          /\ final_news # NoNews
    /\ seq_saved > 0 =>
          /\ seq_i > Len(seq_chunks)
          /\ Len(seq_calls) = Len(seq_chunks)
          /\ seq_final # NoNews
    /\ PoolEndedWithoutResult => saved = 0
    /\ seq_pc \in {"raised", "failed"} => seq_saved = 0

\* the asyncio script has written the consolidated result of three chunks
\* once, after a call that failed and one that succeeded
C23_Witness ==
    /\ pc = "returned"
    /\ saved = 1
    /\ nchunks = MaxChunks
    /\ \E i \in Tasks : call[i] \in FailureKinds
    /\ \E i \in Tasks : call[i] = "ok"
    /\ final_news \in ConsolidateOutputs

(***************************************************************************)
(* What the merge may return, and what it leaves alone                     *)
(***************************************************************************)
\* the strings that the input results hold in a category
InputStrings(cat) == UNION {Elems(results[i][cat]) : i \in DOMAIN results}

\* C24: merge_news_results neither invents nor moves entities and leaves its
\* inputs alone: every string of an output category is the trimmed form of a
\* string that some input result holds in that same category, and the input
\* results are the same after the call as before it.
C24_MergeFrame ==
    /\ [](merge_pc \in {"returned", "remerged"} =>
            \A cat \in Categories :
                \A k \in 1..Len(merged[cat]) :
                    \E item \in InputStrings(cat) : merged[cat][k] = Strip(item))
    /\ [][results' = results]_vars

\* the merge returned, in one category, the trimmed form of a string that
\* no other category of the inputs holds in any spacing, and that differs
\* from the input string; a second category came out non-empty
C24_Witness ==
    /\ merge_pc = "returned"
    /\ \E cat \in Categories :
           /\ \E k \in 1..Len(merged[cat]) :
                  /\ merged[cat][k] \notin InputStrings(cat)
                  /\ \A other \in Categories \ {cat} :
                         \A item \in InputStrings(other) :
                             Strip(item) # merged[cat][k]
           /\ \E other \in Categories \ {cat} : merged[other] # <<>>

====
